---- MODULE Spec2Model ----
(***************************************************************************)
(* CompareBranchNode (src/views/nodes/compareBranchNode.ts): the           *)
(* comparison state of a branch node, its cached children, the persisted   *)
(* per-branch selection, and the commit / file queries it hands to its     *)
(* children.  Asynchronous methods are split at their awaits: every action *)
(* is one synchronous run of code between two suspension points.           *)
(***************************************************************************)
EXTENDS Integers, Sequences, FiniteSets, TLC

\* ------------------------------------------------------------------ bounds
\* number of asynchronous calls that may be in flight (or finished and not
\* yet replaced by a newer call) at the same time
MaxTasks == 2
\* number of calls started in one behaviour
MaxCalls == 2

\* ------------------------------------------------------------- value model
\* JS undefined / null for object-valued slots
Undefined == [tag |-> "undefined"]
\* JS undefined for string-valued slots (merge base, notation)
NoRef == "<undefined>"

\* ViewShowBranchComparison without `false`
ComparisonTypes == {"branch", "working"}

\* the compare nodes: n1 and n2 show the same (current) branch in two views,
\* n3 shows another branch
Nodes == {"n1", "n2", "n3"}
\* n4 shows a third branch, one whose name ends in "+current" and which is
\* not checked out
NamedNodes == {"n1", "n4"}

branch(n) ==
    IF n = "n3" THEN [id |-> "dev", ref |-> "dev", current |-> FALSE]
    ELSE IF n = "n4" THEN [id |-> "main+current", ref |-> "main+current", current |-> FALSE]
    ELSE [id |-> "main", ref |-> "main", current |-> TRUE]

\* references the picker can hand back; "" is the working tree
PickRefs == {"", "dev"}
Picks == {Undefined, [tag |-> "command"]} \cup {[tag |-> "ref", ref |-> r] : r \in PickRefs}

Comparison(ref, type) ==
    [tag |-> "comparison", ref |-> ref, notation |-> NoRef, type |-> type]
LegacyEntry(s) == [tag |-> "string", value |-> s]

VARIABLES
    _compareWith,     \* node -> BranchComparison | undefined
    _children,        \* node -> cached child set | undefined
    showComparison,   \* node -> default comparison type of the node
    workspaceState,   \* persisted BranchComparisons mapping | undefined
    tasks,            \* task id -> the asynchronous call running in that slot
    calls,            \* calls started so far
    writes,           \* workspaceState.update calls issued so far
    refreshes,        \* node -> view.triggerNodeChange(node) signals fired
    lastSeq,          \* key -> number of the last update applied for the key
    lastWrite,        \* key -> entry that update stored (Undefined: removed)
    commits,          \* a commits query of n1 and the CommitsQueryResults it returned
    filesQuery        \* a getAheadFilesQuery() call of n1

nodeVars == <<_compareWith, _children, showComparison, workspaceState, tasks,
              calls, writes, refreshes, lastSeq, lastWrite>>
queryVars == <<commits, filesQuery>>
vars == <<_compareWith, _children, showComparison, workspaceState, tasks,
          calls, writes, refreshes, lastSeq, lastWrite, commits, filesQuery>>

TaskIds == 1..MaxTasks
Idle == [kind |-> "idle", pc |-> "idle"]

\* ---------------------------------------------------------- pure helpers
\* `${this.branch.id}${this.branch.current ? '+current' : ''}`
StoreKey(n) == branch(n).id \o (IF branch(n).current THEN "+current" ELSE "")

Keys == {StoreKey(n) : n \in Nodes}

EmptyComparisons == [k \in {} |-> Undefined]

\* comparisons?.[id]
Entry(ws, id) ==
    IF ws.tag = "undefined" THEN Undefined
    ELSE IF id \in DOMAIN ws.entries THEN ws.entries[id] ELSE Undefined

\* the value loadCompareWith assigns to this._compareWith
loadCompareWith_Raw(ws, n, show) == Entry(ws, StoreKey(n))
loadCompareWith(ws, n, show) ==
    LET compareWith == Entry(ws, StoreKey(n))
    IN IF compareWith.tag = "string"
          THEN Comparison(compareWith.value, show)
          ELSE compareWith

\* the mapping updateCompareWith hands to workspaceState.update
Comparisons_NoRead(ws, n, compareWith) ==
    IF compareWith.tag # "undefined"
       THEN [k \in {StoreKey(n)} |-> compareWith]
       ELSE EmptyComparisons
Comparisons_NoRemove(ws, n, compareWith) ==
    LET comparisons == IF ws.tag = "undefined" THEN EmptyComparisons ELSE ws.entries
        id == StoreKey(n)
    IN IF compareWith.tag # "undefined"
          THEN [k \in DOMAIN comparisons \cup {id} |->
                    IF k = id THEN compareWith ELSE comparisons[k]]
          ELSE comparisons
Comparisons_KeepExisting(ws, n, compareWith) ==
    LET comparisons == IF ws.tag = "undefined" THEN EmptyComparisons ELSE ws.entries
        id == StoreKey(n)
    IN IF compareWith.tag # "undefined"
          THEN [k \in DOMAIN comparisons \cup {id} |->
                    IF k \in DOMAIN comparisons THEN comparisons[k] ELSE compareWith]
          ELSE [k \in DOMAIN comparisons \ {id} |-> comparisons[k]]
Comparisons(ws, n, compareWith) ==
    LET comparisons == IF ws.tag = "undefined" THEN EmptyComparisons ELSE ws.entries
        id == StoreKey(n)
    IN IF compareWith.tag # "undefined"
          THEN [k \in DOMAIN comparisons \cup {id} |->
                    IF k = id THEN compareWith ELSE comparisons[k]]
          ELSE [k \in DOMAIN comparisons \ {id} |-> comparisons[k]]

\* this._compareWith?.ref || 'HEAD'
CompareRef_Nullish(cw) ==
    IF cw.tag = "undefined" THEN "HEAD" ELSE cw.ref
CompareRef(cw) ==
    IF cw.tag = "undefined" THEN "HEAD"
    ELSE IF cw.ref = "" THEN "HEAD" ELSE cw.ref

ahead(n) == [ref1 |-> CompareRef(_compareWith[n]), ref2 |-> branch(n).ref]
behind(n) == [ref1 |-> branch(n).ref, ref2 |-> CompareRef(_compareWith[n])]

comparisonType(n) ==
    IF _compareWith[n].tag = "undefined" THEN showComparison[n]
                                         ELSE _compareWith[n].type
compareWithWorkingTree(n) == comparisonType(n) = "working"

\* GitRevision.createRange(ref1, ref2, notation)
createRange(ref1, ref2, notation) == ref1 \o notation \o ref2

\* ------------------------------------------------------------------- tasks
Free(t) == tasks[t].pc \in {"idle", "done", "rejected", "threw"}
\* a new call takes the first slot that holds no call in flight
Slot(t) == Free(t) /\ \A u \in TaskIds : u < t => ~Free(u)
CanCall(t) == Slot(t) /\ calls < MaxCalls

\* line 349: the in-memory target is assigned before the write is issued
AssignBeforeUpdate_Deferred(n, compareWith) == _compareWith[n]
AssignBeforeUpdate(n, compareWith) == compareWith

\* lines 348-364 up to the await: assign the target, read the mapping, change
\* this node's entry, hand the mapping to workspaceState.update.  The write
\* either is applied or fails; the promise settles in a later step.
updateCompareWith(t, n, op, compareWith) ==
    \E ok \in BOOLEAN :
        LET id == StoreKey(n) IN
        /\ _compareWith' = [_compareWith EXCEPT ![n] = AssignBeforeUpdate(n, compareWith)]
        /\ workspaceState' =
              IF ok THEN [tag |-> "map",
                          entries |-> Comparisons(workspaceState, n, compareWith)]
                    ELSE workspaceState
        /\ writes' = writes + 1
        /\ lastSeq' = IF ok THEN [lastSeq EXCEPT ![id] = writes + 1] ELSE lastSeq
        /\ lastWrite' = IF ok THEN [lastWrite EXCEPT ![id] = compareWith] ELSE lastWrite
        /\ tasks' = [tasks EXCEPT ![t] =
              [kind |-> "mut", op |-> op, node |-> n, pc |-> "update",
               compareWith |-> compareWith,
               old |-> Entry(workspaceState, id),
               writeOk |-> ok, seq |-> writes + 1,
               during |-> {tasks[u].node : u \in {v \in TaskIds :
                                 /\ tasks[v].kind = "mut"
                                 /\ tasks[v].pc = "update"}}]]

\* a mutating call that returns without reaching updateCompareWith
ReturnedTask(n, op) ==
    [kind |-> "mut", op |-> op, node |-> n, pc |-> "done",
     compareWith |-> _compareWith[n],
     old |-> Entry(workspaceState, StoreKey(n)),
     writeOk |-> TRUE, seq |-> 0, during |-> {}]
Returned(t, n, op) == tasks' = [tasks EXCEPT ![t] = ReturnedTask(n, op)]

InFlightGetChildren(u, n) ==
    /\ tasks[u].kind = "getChildren"
    /\ tasks[u].node = n
    /\ tasks[u].pc \in {"counts", "forkPoint", "mergeBase"}

\* `this._children = undefined` ran for node n while task t becomes `mine`:
\* every getChildren() of n still suspended is noted as superseded
Invalidated(t, n, mine) ==
    [u \in TaskIds |->
        IF u = t THEN mine
        ELSE IF InFlightGetChildren(u, n) THEN [tasks[u] EXCEPT !.superseded = TRUE]
        ELSE tasks[u]]

\* line 184
clearReturnsEarly_Never(n) == FALSE
clearReturnsEarly(n) == _compareWith[n].tag = "undefined"

\* clear(), lines 183-187
clear(t, n) ==
    /\ CanCall(t)
    /\ calls' = calls + 1
    /\ IF clearReturnsEarly(n)
          THEN /\ Returned(t, n, "clear")
               /\ UNCHANGED <<_compareWith, workspaceState, writes, lastSeq, lastWrite>>
          ELSE updateCompareWith(t, n, "clear", Undefined)
    /\ UNCHANGED <<_children, showComparison, refreshes>>
    /\ UNCHANGED queryVars

\* line 207: { ...this._compareWith, type: comparisonType }
withType_Unchanged(compareWith, type) == compareWith
withType(compareWith, type) == [compareWith EXCEPT !.type = type]

\* line 190, 214, 246: this.view.triggerNodeChange(this)
triggerNodeChange_Never(n) == refreshes
triggerNodeChange(n) == [refreshes EXCEPT ![n] = @ + 1]

\* setComparisonType(comparisonType), lines 206-214 up to the await
setComparisonType(t, n, type) ==
    /\ CanCall(t)
    /\ calls' = calls + 1
    /\ IF _compareWith[n].tag # "undefined"
          THEN /\ updateCompareWith(t, n, "setComparisonType",
                                    withType(_compareWith[n], type))
               /\ UNCHANGED <<_children, showComparison, refreshes>>
          ELSE /\ showComparison' = [showComparison EXCEPT ![n] = type]
               /\ _children' = [_children EXCEPT ![n] = Undefined]
               /\ refreshes' = triggerNodeChange(n)
               /\ tasks' = Invalidated(t, n, ReturnedTask(n, "setComparisonType"))
               /\ UNCHANGED <<_compareWith, workspaceState, writes, lastSeq, lastWrite>>
    /\ UNCHANGED queryVars

\* edit() -> compareWith(), lines 194-236: suspended on ReferencePicker.show
edit(t, n) ==
    /\ CanCall(t)
    /\ calls' = calls + 1
    /\ tasks' = [tasks EXCEPT ![t] = [kind |-> "mut", op |-> "edit", node |-> n, pc |-> "pick"]]
    /\ UNCHANGED <<_compareWith, _children, showComparison, workspaceState,
                   writes, refreshes, lastSeq, lastWrite>>
    /\ UNCHANGED queryVars

\* lines 239-243: the target built from a picked reference
pickedComparison_Default(n, pick) == Comparison(pick.ref, showComparison[n])
pickedComparison(n, pick) == Comparison(pick.ref, comparisonType(n))

\* compareWith(), lines 237-243: the picker resolved
compareWith(t, pick) ==
    /\ tasks[t].kind = "mut"
    /\ tasks[t].pc = "pick"
    /\ LET n == tasks[t].node IN
       IF pick.tag \in {"undefined", "command"}
          THEN /\ Returned(t, n, "edit")
               /\ UNCHANGED <<_compareWith, workspaceState, writes, lastSeq, lastWrite>>
          ELSE updateCompareWith(t, n, "edit", pickedComparison(n, pick))
    /\ UNCHANGED <<_children, showComparison, refreshes, calls>>
    /\ UNCHANGED queryVars

\* what the awaiting method does when the update promise settles
afterUpdate(ok) == IF ok THEN "done" ELSE "rejected"

\* lines 189-190, 213-214, 245-246: the write completed; or it failed and the
\* rejection leaves the method at the await
updated(t) ==
    /\ tasks[t].kind = "mut"
    /\ tasks[t].pc = "update"
    /\ LET n == tasks[t].node IN
       LET mine == [tasks[t] EXCEPT !.pc = afterUpdate(tasks[t].writeOk)] IN
       IF tasks[t].writeOk
          THEN /\ _children' = [_children EXCEPT ![n] = Undefined]
               /\ refreshes' = triggerNodeChange(n)
               /\ tasks' = Invalidated(t, n, mine)
          ELSE /\ tasks' = [tasks EXCEPT ![t] = mine]
               /\ UNCHANGED <<_children, refreshes>>
    /\ UNCHANGED <<_compareWith, showComparison, workspaceState, calls, writes,
                   lastSeq, lastWrite>>
    /\ UNCHANGED queryVars

\* line 202: this.loadCompareWith()
reload_Keep(n) == _compareWith[n]
reload(n) == loadCompareWith(workspaceState, n, showComparison[n])

\* refresh(), lines 200-203: synchronous, it returns in the step it is called
refresh(t, n) ==
    /\ CanCall(t)
    /\ calls' = calls + 1
    /\ _children' = [_children EXCEPT ![n] = Undefined]
    /\ _compareWith' = [_compareWith EXCEPT ![n] = reload(n)]
    /\ tasks' = [tasks EXCEPT ![t] = [kind |-> "refresh", node |-> n, pc |-> "done"]]
    /\ UNCHANGED <<showComparison, workspaceState, writes, refreshes,
                   lastSeq, lastWrite>>
    /\ UNCHANGED queryVars

\* ------------------------------------------------------------ getChildren
\* results of the git service
Counts == {Undefined, [tag |-> "counts", ahead |-> 1, behind |-> 2]}
MergeBases == {NoRef, "base"}

\* aheadBehindCounts?.behind ?? 0, aheadBehindCounts?.ahead ?? 0
behindCount(c) == IF c.tag = "undefined" THEN 0 ELSE c.behind
aheadCount(c) == IF c.tag = "undefined" THEN 0 ELSE c.ahead

\* a ?? b on optional references
orElse(a, b) == IF a = NoRef THEN b ELSE a

\* lines 77-134: the three children, from the pairs captured at lines 67-68
\* and from the node as it is when the array is built
Children(n, a, b, counts, mergeBase) ==
    [tag |-> "children",
     behind |-> [query |-> createRange(b.ref1, b.ref2, ".."),
                 comparison |-> b,
                 files |-> [ref1 |-> IF compareWithWorkingTree(n) THEN ""
                                     ELSE orElse(mergeBase, b.ref1),
                            ref2 |-> b.ref2],
                 commits |-> behindCount(counts)],
     ahead |-> [query |-> createRange(a.ref1,
                                      IF compareWithWorkingTree(n) THEN "" ELSE a.ref2,
                                      ".."),
                comparison |-> a,
                files |-> [ref1 |-> orElse(mergeBase, a.ref1),
                           ref2 |-> IF compareWithWorkingTree(n) THEN "" ELSE a.ref2],
                commits |-> aheadCount(counts)],
     files |-> [ref1 |-> CompareRef(_compareWith[n]),
                ref2 |-> IF compareWithWorkingTree(n) THEN "" ELSE branch(n).ref]]

NoChildren == [tag |-> "children", empty |-> TRUE]

GitUnchanged == UNCHANGED <<_compareWith, showComparison, workspaceState, writes,
                            refreshes, lastSeq, lastWrite, commits, filesQuery>>

\* line 66: this._children has been built
isCached_Never(n) == FALSE
isCached(n) == _children[n].tag # "undefined"

\* getChildren(), lines 63-72: return at once, or capture the pairs and
\* suspend on getAheadBehindCommitCount
getChildren(t, n) ==
    /\ CanCall(t)
    /\ calls' = calls + 1
    /\ tasks' = [tasks EXCEPT ![t] =
          IF _compareWith[n].tag = "undefined"
             THEN [kind |-> "getChildren", node |-> n, pc |-> "done",
                   result |-> NoChildren, requests |-> <<>>, superseded |-> FALSE]
          ELSE IF isCached(n)
             THEN [kind |-> "getChildren", node |-> n, pc |-> "done",
                   result |-> _children[n], requests |-> <<>>, superseded |-> FALSE]
          ELSE [kind |-> "getChildren", node |-> n, pc |-> "counts",
                ahead |-> ahead(n), behind |-> behind(n),
                requests |-> <<"getAheadBehindCommitCount">>,
                superseded |-> FALSE]]
    /\ UNCHANGED _children
    /\ GitUnchanged

\* line 74: the counts arrived; request the fork-point merge base
aheadBehindCounts(t, c) ==
    /\ tasks[t].kind = "getChildren"
    /\ tasks[t].pc = "counts"
    /\ tasks' = [tasks EXCEPT ![t] =
          [kind |-> "getChildren", node |-> tasks[t].node, pc |-> "forkPoint",
           ahead |-> tasks[t].ahead, behind |-> tasks[t].behind,
           counts |-> c,
           requests |-> Append(tasks[t].requests, "getMergeBase(forkPoint)"),
           superseded |-> tasks[t].superseded]]
    /\ UNCHANGED <<_children, calls>>
    /\ GitUnchanged

\* lines 77-136 once the merge base is known: build the array, store it in
\* this._children and return it; `this._compareWith.ref` (line 126) throws a
\* TypeError when the target was cleared during the awaits
built(t, mergeBase, more) ==
    LET n == tasks[t].node
        k == tasks[t]
    IN IF _compareWith[n].tag = "undefined"
          THEN /\ tasks' = [tasks EXCEPT ![t] =
                     [kind |-> "getChildren", node |-> n, pc |-> "threw",
                      ahead |-> k.ahead, behind |-> k.behind, counts |-> k.counts,
                      requests |-> k.requests, superseded |-> k.superseded] @@ more]
               /\ UNCHANGED _children
          ELSE LET c == Children(n, k.ahead, k.behind, k.counts, mergeBase) IN
               /\ _children' = [_children EXCEPT ![n] = c]
               /\ tasks' = [tasks EXCEPT ![t] =
                     [kind |-> "getChildren", node |-> n, pc |-> "done",
                      ahead |-> k.ahead, behind |-> k.behind, counts |-> k.counts,
                      requests |-> k.requests, superseded |-> k.superseded,
                      mergeBase |-> mergeBase, result |-> c] @@ more]

\* the `??` of lines 73-75: the plain merge base is requested when the
\* fork-point request had no result
needsPlainMergeBase_Never(forkPoint) == FALSE
needsPlainMergeBase(forkPoint) == forkPoint = NoRef

\* lines 74-75: the fork-point merge base arrived
forkPointMergeBase(t, r) ==
    /\ tasks[t].kind = "getChildren"
    /\ tasks[t].pc = "forkPoint"
    /\ IF needsPlainMergeBase(r)
          THEN /\ tasks' = [tasks EXCEPT ![t] =
                     [kind |-> "getChildren", node |-> tasks[t].node, pc |-> "mergeBase",
                      ahead |-> tasks[t].ahead, behind |-> tasks[t].behind,
                      counts |-> tasks[t].counts, forkPoint |-> r,
                      requests |-> Append(tasks[t].requests, "getMergeBase"),
                      superseded |-> tasks[t].superseded]]
               /\ UNCHANGED _children
          ELSE built(t, r, [forkPoint |-> r])
    /\ UNCHANGED calls
    /\ GitUnchanged

\* line 75: the plain merge base arrived
plainMergeBase(t, r) ==
    /\ tasks[t].kind = "getChildren"
    /\ tasks[t].pc = "mergeBase"
    /\ built(t, r, [forkPoint |-> tasks[t].forkPoint, plain |-> r])
    /\ UNCHANGED calls
    /\ GitUnchanged

\* ------------------------------------------------------------ the node spec
\* what the persisted mapping may hold for a key when the nodes are built:
\* nothing, a legacy bare string, or a structured entry
InitEntries == {Undefined, LegacyEntry("v1"), Comparison("dev", "working")}

InitStores ==
    {Undefined} \cup
    {[tag |-> "map", entries |-> [k \in D |-> f[k]]] :
        D \in SUBSET Keys, f \in [Keys -> InitEntries \ {Undefined}]}

NoQuery == [pc |-> "idle"]

\* the state after the nodes' constructors ran (line 38: loadCompareWith)
InitWith(stores, shows) ==
    /\ workspaceState \in stores
    /\ showComparison \in shows
    /\ _compareWith = [n \in Nodes |-> loadCompareWith(workspaceState, n, showComparison[n])]
    /\ _children = [n \in Nodes |-> Undefined]
    /\ tasks = [t \in TaskIds |-> Idle]
    /\ calls = 0
    /\ writes = 0
    /\ refreshes = [n \in Nodes |-> 0]
    /\ lastSeq = [k \in Keys |-> 0]
    /\ lastWrite = [k \in Keys |-> Entry(workspaceState, k)]
    /\ commits = NoQuery
    /\ filesQuery = NoQuery

\* one node on its own: every method of the node
Init ==
    InitWith({w \in InitStores : Entry(w, StoreKey("n3")).tag = "undefined"},
             {f \in [Nodes -> ComparisonTypes] : f["n2"] = f["n1"] /\ f["n3"] = "branch"})

Next ==
    \E t \in TaskIds :
        \/ getChildren(t, "n1")
        \/ \E c \in Counts : aheadBehindCounts(t, c)
        \/ \E r \in MergeBases : forkPointMergeBase(t, r)
        \/ \E r \in MergeBases : plainMergeBase(t, r)
        \/ clear(t, "n1")
        \/ \E type \in ComparisonTypes : setComparisonType(t, "n1", type)
        \/ edit(t, "n1")
        \/ \E pick \in Picks : compareWith(t, pick)
        \/ updated(t)
        \/ refresh(t, "n1")

Spec == Init /\ [][Next]_vars

\* ----------------------------------------------------------- the store spec
\* the three nodes mutate concurrently; they share only the persisted
\* mapping (refresh() writes nothing to it and is left to the node spec)
StoredBefore ==
    [tag |-> "map",
     entries |-> [k \in Keys |-> IF k = StoreKey("n3") THEN Comparison("v1", "branch")
                                                       ELSE LegacyEntry("v1")]]

InitStore ==
    InitWith({Undefined, StoredBefore},
             {[n \in Nodes |-> IF n = "n2" THEN "working" ELSE "branch"]})

NextStore ==
    \E t \in TaskIds :
        \/ \E n \in Nodes : clear(t, n)
        \/ \E n \in Nodes, type \in ComparisonTypes : setComparisonType(t, n, type)
        \/ \E n \in Nodes : edit(t, n)
        \/ \E pick \in Picks : compareWith(t, pick)
        \/ updated(t)

SpecStore == InitStore /\ [][NextStore]_vars

\* ------------------------------------------------------- the commits query
\* commits in the queried range, at most
MaxCommits == 3
\* page sizes; limit 0 stands for `undefined`: no limit
MaxLimit == 2
Limits == 0..MaxLimit

Min(a, b) == IF a < b THEN a ELSE b

\* the git service's log of a range holding `total` commits, `count` of them
\* fetched; `more` tells whether the log carries a continuation function
GitLog(total, count, more) ==
    [tag |-> "log", entries |-> [i \in 1..count |-> i],
     hasMore |-> count < total, more |-> more]

\* every value the git service can answer a log request with
GitLogs ==
    {Undefined} \cup
    {GitLog(total, count, m) : total \in 0..MaxCommits, count \in 0..MaxCommits, m \in BOOLEAN}

\* Container.git.getLog(repoPath, {limit, ref}): a log of the first `limit`
\* commits, or no result
getLog(total, limit) ==
    {Undefined} \cup
    {GitLog(total, IF limit = 0 THEN total ELSE Min(limit, total), m) : m \in BOOLEAN}

\* log.more(limit): the log extended by the next page, or no result
logMore(total, log, limit) ==
    {Undefined} \cup
    {GitLog(total, IF limit = 0 THEN total ELSE Min(Len(log.entries) + limit, total), m) :
        m \in BOOLEAN}

\* log?.hasMore ?? true (lines 301 and 306)
hasMore_DefaultFalse(log) == IF log.tag = "undefined" THEN FALSE ELSE log.hasMore
hasMore(log) == IF log.tag = "undefined" THEN TRUE ELSE log.hasMore

\* (await results.log?.more?.(limit)) ?? results.log (line 305)
moreOrLog_NoFallback(got, log) == got
moreOrLog(got, log) == IF got.tag = "undefined" THEN log ELSE got

QueryUnchanged == UNCHANGED <<_compareWith, _children, showComparison, workspaceState,
                              tasks, calls, writes, refreshes, lastSeq, lastWrite>>

\* lines 293-297: the query function is called and suspends on getLog
commitsQuery(limit) ==
    /\ commits.pc = "idle"
    /\ commits' = [pc |-> "getLog", limit |-> limit]
    /\ UNCHANGED filesQuery
    /\ QueryUnchanged

\* lines 299-310: getLog resolved; the results object is built and returned
commitsQueryResults(total, log) ==
    /\ commits.pc = "getLog"
    /\ log \in getLog(total, commits.limit)
    /\ commits' = [pc |-> "results", total |-> total, moreCalls |-> 0,
                   limit |-> commits.limit,
                   results |-> [log |-> log, hasMore |-> hasMore(log),
                                more |-> hasMore(log)]]
    /\ UNCHANGED filesQuery
    /\ QueryUnchanged

\* line 305 up to the await: results.more(limit) is called and suspends on
\* results.log?.more?.(limit)
more(limit) ==
    /\ commits.pc = "results"
    /\ commits.results.more
    /\ commits.moreCalls < MaxCalls
    /\ commits' = [commits EXCEPT !.pc = "more", !.limit = limit,
                                  !.moreCalls = @ + 1]
    /\ UNCHANGED filesQuery
    /\ QueryUnchanged

\* lines 305-306: the continuation resolved (to undefined when there is no
\* log or the log has no continuation function)
moreResolved(got) ==
    /\ commits.pc = "more"
    /\ got \in IF commits.results.log.tag = "undefined" THEN {Undefined}
               ELSE IF ~commits.results.log.more THEN {Undefined}
               ELSE logMore(commits.total, commits.results.log, commits.limit)
    /\ LET log == moreOrLog(got, commits.results.log) IN
       commits' = [pc |-> "results", total |-> commits.total,
                   moreCalls |-> commits.moreCalls, limit |-> commits.limit,
                   got |-> got,
                   results |-> [log |-> log, hasMore |-> hasMore(log),
                                more |-> commits.results.more]]
    /\ UNCHANGED filesQuery
    /\ QueryUnchanged

InitQuery ==
    InitWith({Undefined, StoredBefore},
             {f \in [Nodes -> ComparisonTypes] : f["n2"] = "branch" /\ f["n3"] = "branch"})

NextCommits ==
    \/ \E limit \in Limits : commitsQuery(limit)
    \/ \E total \in 0..MaxCommits, log \in GitLogs : commitsQueryResults(total, log)
    \/ \E limit \in Limits : more(limit)
    \/ \E got \in GitLogs : moreResolved(got)

SpecCommits == InitQuery /\ [][NextCommits]_vars

\* --------------------------------------------------- the ahead-files query
\* files in one diff status, at most
MaxFiles == 2
FileNames == {"A", "B", "C"}
Statuses == {"A", "M", "D"}
GitFiles == [fileName : FileNames, status : Statuses]

\* sequences of at most MaxFiles files, no file name twice: what a diff
\* status lists
FileLists(len) ==
    UNION {{f \in [1..l -> GitFiles] :
               \A i, j \in 1..l : i # j => f[i].fileName # f[j].fileName} : l \in 0..len}

DiffStatuses == {Undefined} \cup {[tag |-> "files", list |-> f] : f \in FileLists(MaxFiles)}

\* files.findIndex(f => f.fileName === wf.fileName), 1-based; 0 for -1
findIndex(files, fileName) ==
    IF \E i \in 1..Len(files) : files[i].fileName = fileName
       THEN CHOOSE i \in 1..Len(files) :
               /\ files[i].fileName = fileName
               /\ \A j \in 1..(i - 1) : files[j].fileName # fileName
       ELSE 0

\* lines 260-265: one turn of the loop over workingFiles
overlay_AlwaysPush(files, wf) == Append(files, wf)
overlay(files, wf) ==
    LET index == findIndex(files, wf.fileName)
    IN IF index # 0 THEN [files EXCEPT ![index] = wf]
                    ELSE Append(files, wf)

\* lines 259-266: the loop, from working file i on
RECURSIVE overlayAll(_, _, _)
overlayAll(files, workingFiles, i) ==
    IF i > Len(workingFiles) THEN files
    ELSE overlayAll(overlay(files, workingFiles[i]), workingFiles, i + 1)

\* lines 257-270
mergeWorkingFiles(files, workingFiles) ==
    IF workingFiles.tag = "undefined" THEN files
    ELSE IF files.tag = "undefined" THEN workingFiles
    ELSE [tag |-> "files", list |-> overlayAll(files.list, workingFiles.list, 1)]

\* Strings.pluralize('file', files?.length ?? 0, { zero: 'No' }) + ' changed'
label(files) ==
    LET count == IF files.tag = "undefined" THEN 0 ELSE Len(files.list)
    IN IF count = 0 THEN "No files changed"
       ELSE IF count = 1 THEN "1 file changed"
       ELSE ToString(count) \o " files changed"

FilesQueryResults(files) == [label |-> label(files), files |-> files]

\* lines 250-253: getAheadFilesQuery() is called and suspends on getDiffStatus
getAheadFilesQuery ==
    /\ filesQuery.pc = "idle"
    /\ filesQuery' = [pc |-> "getDiffStatus",
                      ref |-> createRange(CompareRef(_compareWith["n1"]),
                                          IF branch("n1").ref = "" THEN "HEAD"
                                                                   ELSE branch("n1").ref,
                                          "...")]
    /\ UNCHANGED commits
    /\ QueryUnchanged

\* lines 255-256 and 273-276: the historical diff status arrived
diffStatus(files) ==
    /\ filesQuery.pc = "getDiffStatus"
    /\ filesQuery' =
          IF compareWithWorkingTree("n1")
             THEN [pc |-> "getDiffStatus(HEAD)", ref |-> filesQuery.ref, files |-> files]
             ELSE [pc |-> "done", ref |-> filesQuery.ref, files |-> files,
                   working |-> FALSE, result |-> FilesQueryResults(files)]
    /\ UNCHANGED commits
    /\ QueryUnchanged

\* lines 257-276: the working tree's diff status arrived
workingDiffStatus(workingFiles) ==
    /\ filesQuery.pc = "getDiffStatus(HEAD)"
    /\ filesQuery' = [pc |-> "done", ref |-> filesQuery.ref, files |-> filesQuery.files,
                      working |-> TRUE, workingFiles |-> workingFiles,
                      result |-> FilesQueryResults(
                                    mergeWorkingFiles(filesQuery.files, workingFiles))]
    /\ UNCHANGED commits
    /\ QueryUnchanged

NextFiles ==
    \/ getAheadFilesQuery
    \/ \E files \in DiffStatuses : diffStatus(files)
    \/ \E workingFiles \in DiffStatuses : workingDiffStatus(workingFiles)

SpecFiles == InitQuery /\ [][NextFiles]_vars

\* ------------------------------------------------------------------ claims
IsMut(t) == tasks[t].kind = "mut"
IsGetChildren(t) == tasks[t].kind = "getChildren"

\* C1: a getChildren() that was suspended while edit(), clear() or
\* setComparisonType() changed the target and invalidated the cache does not
\* store, when it resumes, a child set built from the pairs of the old target.
C1_StaleChildrenDiscarded ==
    [][\A t \in TaskIds :
          ( /\ IsGetChildren(t)
            /\ tasks[t].pc \in {"forkPoint", "mergeBase"}
            /\ tasks[t].superseded
            /\ tasks[t].behind # behind(tasks[t].node)
            /\ tasks'[t].pc \in {"done", "threw"} )
          => _children'[tasks[t].node] = _children[tasks[t].node]]_vars

\* C2: a clear() call on a node without a target changes neither the target,
\* the cached children nor the persisted mapping, issues no write and fires
\* no refresh signal; it returns at once.
C2_ClearUnconfiguredIsNoop ==
    [][\A t \in TaskIds :
          ( /\ Slot(t)
            /\ calls' = calls + 1
            /\ tasks'[t].kind = "mut"
            /\ tasks'[t].op = "clear"
            /\ _compareWith[tasks'[t].node].tag = "undefined" )
          => /\ tasks'[t].pc = "done"
             /\ UNCHANGED <<_compareWith, _children, showComparison, workspaceState,
                            writes, refreshes>>]_vars

C2_Witness ==
    \E t \in TaskIds :
        /\ IsMut(t)
        /\ tasks[t].op = "clear"
        /\ tasks[t].pc = "done"
        /\ tasks[t].seq = 0
        /\ _compareWith[tasks[t].node].tag = "undefined"
        /\ writes = 0
        /\ refreshes[tasks[t].node] = 0

\* C5: in every state the ahead and behind pairs are inverses, and their
\* compare-with side is the target's ref, or "HEAD" when there is no target
\* or its ref is the empty string.
C5_PairsAreInverses ==
    \A n \in Nodes :
        /\ ahead(n).ref1 = behind(n).ref2
        /\ ahead(n).ref2 = behind(n).ref1
        /\ ahead(n).ref2 = branch(n).ref
        /\ ahead(n).ref1 = IF _compareWith[n].tag = "undefined" THEN "HEAD"
                           ELSE IF _compareWith[n].ref = "" THEN "HEAD"
                           ELSE _compareWith[n].ref

C5_Witness ==
    /\ _compareWith["n1"].tag = "comparison"
    /\ _compareWith["n1"].ref = ""
    /\ ahead("n1") = [ref1 |-> "HEAD", ref2 |-> "main"]
    /\ \E t \in TaskIds : IsMut(t) /\ tasks[t].op = "edit" /\ tasks[t].pc = "done"

\* C9: getChildren() asks for the fork-point merge base first; it asks for the
\* plain merge base exactly when the fork-point request came back without a
\* result, and only after it came back; the merge base it uses is undefined
\* only when both requests had no result.
C9_MergeBaseFallback ==
    \A t \in TaskIds :
        IsGetChildren(t) =>
            LET k == tasks[t]
                asked(r) == \E i \in 1..Len(k.requests) : k.requests[i] = r
                first(r) == CHOOSE i \in 1..Len(k.requests) : k.requests[i] = r
            IN /\ asked("getMergeBase") <=>
                     ("forkPoint" \in DOMAIN k /\ k.forkPoint = NoRef)
               /\ asked("getMergeBase") =>
                     /\ asked("getMergeBase(forkPoint)")
                     /\ first("getMergeBase(forkPoint)") < first("getMergeBase")
               /\ "plain" \in DOMAIN k => asked("getMergeBase")
               /\ "mergeBase" \in DOMAIN k =>
                     /\ k.mergeBase = NoRef =>
                           (k.forkPoint = NoRef /\ "plain" \in DOMAIN k /\ k.plain = NoRef)
                     /\ k.mergeBase = IF k.forkPoint # NoRef THEN k.forkPoint ELSE k.plain

C9_Witness ==
    \E t \in TaskIds :
        /\ IsGetChildren(t)
        /\ tasks[t].pc = "done"
        /\ "plain" \in DOMAIN tasks[t]
        /\ tasks[t].forkPoint = NoRef
        /\ tasks[t].plain = "base"
        /\ tasks[t].mergeBase = "base"
        /\ _children[tasks[t].node].tag = "children"
        /\ _children[tasks[t].node].ahead.files.ref1 = "base"

C3_OtherEntriesKept ==
    \A k \in Keys : Entry(workspaceState, k) = lastWrite[k]

\* n1's edit and n3's clear overlapped; both entries are what each wrote
C3_Witness ==
    \E t, u \in TaskIds :
        /\ IsMut(t) /\ tasks[t].node = "n1" /\ tasks[t].op = "edit"
        /\ IsMut(u) /\ tasks[u].node = "n3" /\ tasks[u].op = "clear"
        /\ tasks[t].pc = "done" /\ tasks[u].pc = "done"
        /\ tasks[t].seq > 0 /\ tasks[u].seq > 0
        /\ "n1" \in tasks[u].during
        /\ tasks[u].old.tag = "comparison"
        /\ Entry(workspaceState, StoreKey("n1")) = tasks[t].compareWith
        /\ Entry(workspaceState, StoreKey("n3")) = Undefined

\* two finished edit() calls of two nodes of the same branch identity
EditPair(t, u) ==
    /\ t # u
    /\ IsMut(t) /\ IsMut(u)
    /\ tasks[t].op = "edit" /\ tasks[u].op = "edit"
    /\ tasks[t].pc \in {"done", "rejected"} /\ tasks[u].pc \in {"done", "rejected"}
    /\ tasks[t].seq > 0 /\ tasks[u].seq > 0
    /\ tasks[t].node # tasks[u].node
    /\ StoreKey(tasks[t].node) = StoreKey(tasks[u].node)

\* C4: when two nodes of the same branch identity both edit, neither call
\* fails unless its own write failed, and as long as no later write for the
\* identity was applied the persisted entry is the target of whichever of
\* the two writes was issued last.
C4_LastWriterWins ==
    \A t, u \in TaskIds :
        EditPair(t, u) =>
            /\ tasks[t].pc = "rejected" <=> ~tasks[t].writeOk
            /\ ( /\ tasks[t].writeOk /\ tasks[u].writeOk
                 /\ tasks[t].seq > tasks[u].seq
                 /\ lastSeq[StoreKey(tasks[t].node)] = tasks[t].seq )
               => /\ Entry(workspaceState, StoreKey(tasks[t].node)) = tasks[t].compareWith
                  /\ tasks[t].pc = "done" /\ tasks[u].pc = "done"

\* the two edits overlapped, picked different references, and only the one
\* issued last is persisted
C4_Witness ==
    \E t, u \in TaskIds :
        /\ EditPair(t, u)
        /\ tasks[t].pc = "done" /\ tasks[u].pc = "done"
        /\ tasks[t].seq > tasks[u].seq
        /\ tasks[u].node \in tasks[t].during
        /\ tasks[t].compareWith.ref # tasks[u].compareWith.ref
        /\ Entry(workspaceState, StoreKey(tasks[t].node)) = tasks[t].compareWith
        /\ _compareWith[tasks[u].node] = tasks[u].compareWith
        /\ Entry(workspaceState, StoreKey(tasks[t].node)) # tasks[u].compareWith

\* entries of a log, none when there is no log
Entries(log) == IF log.tag = "undefined" THEN <<>> ELSE log.entries

\* C6: a more(limit) call made when hasMore is false, or answered without a
\* continuation, leaves the fetched entries as they were (none dropped,
\* duplicated or reordered), and a false hasMore stays false.
C6_MoreKeepsEntries ==
    [][( /\ commits.pc = "more"
         /\ commits'.pc = "results"
         /\ (~commits.results.hasMore \/ commits'.got = Undefined) )
       => /\ Entries(commits'.results.log) = Entries(commits.results.log)
          /\ ~commits.results.hasMore => ~commits'.results.hasMore
          /\ commits'.got = Undefined => commits'.results = commits.results]_vars

\* more() was called after the log was exhausted, and once without an answer
C6_Witness ==
    /\ commits.pc = "results"
    /\ commits.moreCalls >= 2
    /\ ~commits.results.hasMore
    /\ commits.got.tag = "log"
    /\ Len(Entries(commits.results.log)) = commits.total
    /\ commits.total >= 2

\* C7 as stated: the results report hasMore only when there is a log and the
\* log itself says that more entries exist.
C7_HasMoreOnlyIfLogSaysSo ==
    commits.pc \in {"results", "more"} =>
        ( commits.results.hasMore =>
            (commits.results.log.tag = "log" /\ commits.results.log.hasMore) )

\* C7 amended: after the fetch and after every more(), hasMore is false
\* exactly when there is a log and the log's hasMore is false; without a log
\* the results report hasMore (and keep their more function).
C7_HasMoreUnlessLogSaysNo ==
    commits.pc \in {"results", "more"} =>
        /\ ~commits.results.hasMore <=>
              (commits.results.log.tag = "log" /\ ~commits.results.log.hasMore)
        /\ commits.results.log.tag = "undefined" =>
              (commits.results.hasMore /\ commits.results.more)

\* no log at all, more() called once: still reported as having more
C7_Witness ==
    /\ commits.pc = "results"
    /\ commits.moreCalls = 1
    /\ commits.results.log = Undefined
    /\ commits.results.hasMore

\* the historical list with the working tree laid over it, as the claim
\* words it: same positions for the files the working tree lists too, the
\* working tree's other files appended in its order
Overlaid(files, workingFiles) ==
    LET inWorking(name) == \E j \in 1..Len(workingFiles) : workingFiles[j].fileName = name
        fromWorking(name) == workingFiles[CHOOSE j \in 1..Len(workingFiles) :
                                             workingFiles[j].fileName = name]
        isNew(wf) == \A i \in 1..Len(files) : files[i].fileName # wf.fileName
    IN [i \in 1..Len(files) |->
            IF inWorking(files[i].fileName) THEN fromWorking(files[i].fileName)
                                            ELSE files[i]]
       \o SelectSeq(workingFiles, isNew)

ListOf(files) == IF files.tag = "undefined" THEN <<>> ELSE files.list

\* C8: the ahead-files query returns the historical list unmodified when the
\* comparison is not against the working tree (or the working tree has no
\* diff status); otherwise the historical list in its order, each file the
\* working tree lists replaced in place, the working tree's new files
\* appended in working-tree order.
C8_WorkingTreeOverlay ==
    filesQuery.pc = "done" =>
        /\ filesQuery.working = compareWithWorkingTree("n1")
        /\ filesQuery.result.label = label(filesQuery.result.files)
        /\ IF ~filesQuery.working THEN filesQuery.result.files = filesQuery.files
           ELSE IF filesQuery.workingFiles.tag = "undefined"
                   THEN filesQuery.result.files = filesQuery.files
           ELSE /\ filesQuery.result.files.tag = "files"
                /\ filesQuery.result.files.list =
                      Overlaid(ListOf(filesQuery.files), filesQuery.workingFiles.list)

\* the example of the specification: [A modified, B added] overlaid with
\* [B deleted, C added]
C8_Witness ==
    /\ filesQuery.pc = "done"
    /\ filesQuery.working
    /\ filesQuery.files =
          [tag |-> "files", list |-> <<[fileName |-> "A", status |-> "M"],
                                       [fileName |-> "B", status |-> "A"]>>]
    /\ filesQuery.workingFiles =
          [tag |-> "files", list |-> <<[fileName |-> "B", status |-> "D"],
                                       [fileName |-> "C", status |-> "A"]>>]
    /\ filesQuery.result.files.list = <<[fileName |-> "A", status |-> "M"],
                                        [fileName |-> "B", status |-> "D"],
                                        [fileName |-> "C", status |-> "A"]>>
    /\ filesQuery.result.label = "3 files changed"

\* ------------------------------------------------------------------- C11
\* what setComparisonType(m), called in slot t on node n, has done when it
\* suspends or returns
SetComparisonTypePost(t, n, m) ==
    /\ (_compareWith'[n].tag = "undefined") = (_compareWith[n].tag = "undefined")
    /\ IF _compareWith[n].tag # "undefined"
          THEN /\ _compareWith'[n].ref = _compareWith[n].ref
               /\ _compareWith'[n].type = m
               /\ writes' = writes + 1
               /\ tasks'[t].compareWith = _compareWith'[n]
               /\ tasks'[t].writeOk =>
                     Entry(workspaceState', StoreKey(n)) = _compareWith'[n]
               /\ showComparison' = showComparison
          ELSE /\ writes' = writes
               /\ workspaceState' = workspaceState
               /\ showComparison' = [showComparison EXCEPT ![n] = m]
               /\ _children'[n] = Undefined
               /\ showComparison'[n] = m

\* the write of a setComparisonType call completes and the call returns
SetComparisonTypeReturns(t) ==
    /\ tasks[t].kind = "mut"
    /\ tasks[t].op = "setComparisonType"
    /\ tasks[t].pc = "update"
    /\ tasks'[t].pc = "done"

NeverInvalidated ==
    Cardinality({u \in TaskIds : tasks[u].kind = "getChildren"}) = calls

\* a suspended getChildren() resumes for the last time and returns
GetChildrenReturns(t) ==
    /\ InFlightGetChildren(t, "n1")
    /\ tasks'[t].pc = "done"

NoRepeat(requests) ==
    \A i, j \in 1..Len(requests) : requests[i] = requests[j] => i = j

\* C12 as stated: getChildren() on an unconfigured node returns the empty
\* sequence and issues no query; on a configured node, while the cache has not
\* been invalidated, a call that overlaps another call issues no query of its
\* own and returns the child set the other call returned.
C12_QueriesOncePerInvalidation ==
    [][\A t \in TaskIds :
         /\ getChildren(t, "n1") =>
              /\ _compareWith["n1"].tag = "undefined" =>
                    /\ tasks'[t].pc = "done"
                    /\ tasks'[t].result = NoChildren
                    /\ tasks'[t].requests = << >>
              /\ /\ _compareWith["n1"].tag # "undefined"
                 /\ NeverInvalidated
                 /\ \E u \in TaskIds : InFlightGetChildren(u, "n1")
                 => tasks'[t].requests = << >>
         /\ /\ GetChildrenReturns(t)
            /\ NeverInvalidated
            => \A u \in TaskIds :
                  /\ u # t
                  /\ tasks[u].kind = "getChildren"
                  /\ tasks[u].pc = "done"
                  => tasks'[t].result = tasks[u].result]_vars

\* C12 as the code has it: an unconfigured node returns the empty sequence and
\* issues no query; a configured node with a cached child set returns that set
\* and issues no query; a configured node with an empty cache starts the
\* count query in every such call, a call issues each query at most once, and
\* the call stores the child set it returns.
C12_QueriesOncePerBuild ==
    [][\A t \in TaskIds :
         /\ getChildren(t, "n1") =>
              IF _compareWith["n1"].tag = "undefined"
                 THEN /\ tasks'[t].pc = "done"
                      /\ tasks'[t].result = NoChildren
                      /\ tasks'[t].requests = << >>
              ELSE IF _children["n1"].tag # "undefined"
                 THEN /\ tasks'[t].pc = "done"
                      /\ tasks'[t].result = _children["n1"]
                      /\ tasks'[t].result # NoChildren
                      /\ tasks'[t].requests = << >>
              ELSE /\ tasks'[t].pc = "counts"
                   /\ tasks'[t].requests = <<"getAheadBehindCommitCount">>
         /\ tasks'[t].kind = "getChildren" => NoRepeat(tasks'[t].requests)
         /\ GetChildrenReturns(t) => _children'["n1"] = tasks'[t].result]_vars

\* a call returned, without any query, the child set an earlier call had
\* built and cached
C12_Witness ==
    \E t \in TaskIds :
        /\ tasks[t].kind = "getChildren"
        /\ tasks[t].pc = "done"
        /\ tasks[t].requests = << >>
        /\ tasks[t].result # NoChildren
        /\ tasks[t].result = _children["n1"]
        /\ tasks[t].result.behind.comparison = behind("n1")

\* ------------------------------------------------------------------- C13
\* two branches of one repository, "main" (checked out) and "main+current":
\* the nodes n1 and n4 after their constructors ran on an empty mapping
InitKeys ==
    /\ workspaceState = Undefined
    /\ showComparison \in [NamedNodes -> ComparisonTypes]
    /\ _compareWith = [n \in NamedNodes |->
                          loadCompareWith(workspaceState, n, showComparison[n])]
    /\ _children = [n \in NamedNodes |-> Undefined]
    /\ tasks = [t \in TaskIds |-> Idle]
    /\ calls = 0
    /\ writes = 0
    /\ refreshes = [n \in NamedNodes |-> 0]
    /\ lastSeq = [k \in Keys |-> 0]
    /\ lastWrite = [k \in Keys |-> Undefined]
    /\ commits = NoQuery
    /\ filesQuery = NoQuery

NextKeys ==
    \E t \in TaskIds :
        \/ \E n \in NamedNodes : clear(t, n)
        \/ \E n \in NamedNodes, type \in ComparisonTypes : setComparisonType(t, n, type)
        \/ \E n \in NamedNodes : edit(t, n)
        \/ \E pick \in Picks : compareWith(t, pick)
        \/ updated(t)
        \/ \E n \in NamedNodes : refresh(t, n)

SpecKeys == InitKeys /\ [][NextKeys]_vars

\* (branch id, is-current flag) of a node
Identity(n) == <<branch(n).id, branch(n).current>>

\* task t issues the write of a mutating call
IssuesWrite(t) ==
    /\ tasks[t].pc # "update"
    /\ tasks'[t].kind = "mut"
    /\ tasks'[t].pc = "update"

\* C13: nodes of different (branch id, is-current) never have the same store
\* key, so a write issued by one node never stores, overwrites or removes the
\* entry another identity's node loads.
C13_KeysAreInjective ==
    [][\A t \in TaskIds : IssuesWrite(t) /\ tasks'[t].writeOk =>
          \A m \in NamedNodes :
              Identity(m) # Identity(tasks'[t].node) =>
                  /\ StoreKey(m) # StoreKey(tasks'[t].node)
                  /\ Entry(workspaceState', StoreKey(m)) =
                         Entry(workspaceState, StoreKey(m))]_vars

\* ------------------------------------------------------------------- C14
\* what the mapping may hold for the key of n1 and n2 when they are built:
\* nothing, a legacy bare string (the empty string too), a structured entry
LoadEntries ==
    {Undefined, LegacyEntry(""), LegacyEntry("v1"),
     Comparison("dev", "working"), Comparison("", "branch")}

LoadStores ==
    {Undefined} \cup
    {[tag |-> "map",
      entries |-> [k \in (IF e = Undefined THEN {} ELSE {StoreKey("n1")}) |-> e]] :
        e \in LoadEntries}

\* two views show the same branch: n1 and n2 share the entry, each has its
\* own default type
InitLoad ==
    InitWith(LoadStores, {f \in [Nodes -> ComparisonTypes] : f["n3"] = "branch"})

\* n1 fetches its children and is refreshed while the other view of the
\* branch, n2, changes the shared entry
NextLoad ==
    \E t \in TaskIds :
        \/ getChildren(t, "n1")
        \/ \E c \in Counts : aheadBehindCounts(t, c)
        \/ \E r \in MergeBases : forkPointMergeBase(t, r)
        \/ \E r \in MergeBases : plainMergeBase(t, r)
        \/ clear(t, "n2")
        \/ \E type \in ComparisonTypes : setComparisonType(t, "n2", type)
        \/ edit(t, "n2")
        \/ \E pick \in Picks : compareWith(t, pick)
        \/ updated(t)
        \/ refresh(t, "n1")

SpecLoad == InitLoad /\ [][NextLoad]_vars

\* the target a stored value stands for, given the node's default type
Loaded(stored, show) ==
    CASE stored.tag = "string" ->
            [tag |-> "comparison", ref |-> stored.value, notation |-> NoRef, type |-> show]
      [] stored.tag = "comparison" -> stored
      [] OTHER -> Undefined

\* C14: loading (at construction and in refresh) turns a bare string s into
\* {ref: s, notation: undefined, type: the node's default type}, yields a
\* structured entry as stored, with its stored type, and leaves the node
\* unconfigured when the key has no entry.
C14_LoadNormalizes ==
    /\ [](calls = 0 =>
            \A n \in {"n1", "n2"} :
                _compareWith[n] =
                    Loaded(Entry(workspaceState, StoreKey(n)), showComparison[n]))
    /\ [][\A t \in TaskIds : refresh(t, "n1") =>
              _compareWith'["n1"] =
                  Loaded(Entry(workspaceState, StoreKey("n1")), showComparison["n1"])]_vars

\* refresh() loaded the legacy empty string with the node's default type
\* "working"
C14_Witness ==
    \E t \in TaskIds :
        /\ tasks[t].kind = "refresh"
        /\ tasks[t].node = "n1"
        /\ Entry(workspaceState, StoreKey("n1")) = LegacyEntry("")
        /\ showComparison["n1"] = "working"
        /\ _compareWith["n1"] = Comparison("", "working")

\* ------------------------------------------------------------------- C15
\* a mutating call of n1 returns in this step: its write completed, or it is
\* setComparisonType on an unconfigured node, which has no write
WriteCompletes(t) ==
    /\ tasks[t].kind = "mut"
    /\ tasks[t].pc = "update"
    /\ tasks[t].node = "n1"
    /\ tasks'[t].pc = "done"
SetsDefaultType(t) ==
    /\ _compareWith["n1"].tag = "undefined"
    /\ \E m \in ComparisonTypes : setComparisonType(t, "n1", m)

\* C15: a mutating call that completes signals the view exactly once: the
\* signal is fired in the step in which the call returns, after its write was
\* applied and with the cached children cleared, and in no other step; a call
\* that returns early or whose write is rejected fires none.
C15_SignalOncePerMutation ==
    [][/\ \A t \in TaskIds :
            WriteCompletes(t) \/ SetsDefaultType(t) =>
                /\ refreshes'["n1"] = refreshes["n1"] + 1
                /\ _children'["n1"] = Undefined
                /\ WriteCompletes(t) =>
                      /\ tasks[t].writeOk
                      /\ tasks[t].seq <= writes
                      /\ writes' = writes
       /\ refreshes'["n1"] # refreshes["n1"] =>
            \E t \in TaskIds : WriteCompletes(t) \/ SetsDefaultType(t)]_vars

\* two mutating calls completed one after the other, two signals were fired
C15_Witness ==
    /\ calls = 2
    /\ writes = 2
    /\ lastSeq[StoreKey("n1")] = 2
    /\ \A t \in TaskIds : Free(t)
    /\ \E t \in TaskIds : IsMut(t) /\ tasks[t].pc = "done" /\ tasks[t].seq = 2
    /\ \A t \in TaskIds : tasks[t].pc # "rejected"
    /\ refreshes["n1"] = 2
    /\ _children["n1"] = Undefined

\* ------------------------------------------------------------------- C16
\* a suspended getChildren() of n1 resumes for the last time
GetChildrenEnds(t) ==
    /\ InFlightGetChildren(t, "n1")
    /\ ~(tasks'[t].pc \in {"counts", "forkPoint", "mergeBase"})

\* clear() has run on n1 past its early return
ClearRan ==
    \E u \in TaskIds :
        /\ tasks[u].kind = "mut"
        /\ tasks[u].op = "clear"
        /\ tasks[u].node = "n1"
        /\ tasks[u].seq > 0

\* C16: a getChildren() that is in flight when clear() runs on the node still
\* returns (a child set or the empty sequence); it never ends in an error.
C16_GetChildrenSurvivesClear ==
    [][\A t \in TaskIds :
          GetChildrenEnds(t) /\ ClearRan =>
              /\ tasks'[t].pc = "done"
              /\ tasks'[t].result \in {NoChildren, _children'["n1"]}]_vars

\* ------------------------------------------------------------------- C17
\* the effective comparison type of n1 (line 218)
EffectiveType ==
    IF _compareWith["n1"].tag = "undefined" THEN showComparison["n1"]
                                            ELSE _compareWith["n1"].type

\* C17: edit() changes nothing until the picker resolves; when the pick is
\* cancelled or is a command item the target, the cache, the persisted mapping
\* and the signal count stay as they are and the call returns; on a valid pick
\* the target becomes {ref: the picked ref, notation: undefined, type: the
\* effective type at that moment} and that value is what the write stores.
C17_EditOnlyOnValidPick ==
    [][\A t \in TaskIds :
         /\ edit(t, "n1") =>
               UNCHANGED <<_compareWith, _children, showComparison, workspaceState,
                           writes, refreshes>>
         /\ \A pick \in Picks :
               compareWith(t, pick) /\ tasks[t].node = "n1" =>
                   IF pick.tag \in {"undefined", "command"}
                      THEN /\ UNCHANGED <<_compareWith, _children, showComparison,
                                          workspaceState, writes, refreshes>>
                           /\ tasks'[t].pc = "done"
                      ELSE LET target == [tag |-> "comparison", ref |-> pick.ref,
                                          notation |-> NoRef, type |-> EffectiveType]
                           IN /\ _compareWith'["n1"] = target
                              /\ tasks'[t].compareWith = target
                              /\ writes' = writes + 1
                              /\ IF tasks'[t].writeOk
                                    THEN Entry(workspaceState', StoreKey("n1")) = target
                                    ELSE workspaceState' = workspaceState]_vars

\* a completed edit() on a node whose target had the type "working" while the
\* node's default is "branch": the picked ref was stored with "working"
C17_Witness ==
    \E t \in TaskIds :
        /\ tasks[t].kind = "mut"
        /\ tasks[t].op = "edit"
        /\ tasks[t].pc = "done"
        /\ tasks[t].seq > 0
        /\ tasks[t].old = Comparison("dev", "working")
        /\ showComparison["n1"] = "branch"
        /\ tasks[t].compareWith = Comparison("", "working")
        /\ _compareWith["n1"] = tasks[t].compareWith
        /\ Entry(workspaceState, StoreKey("n1")) = tasks[t].compareWith

\* ------------------------------------------------------------------- C18
NoMutationInFlight ==
    \A t \in TaskIds : ~(tasks[t].kind = "mut" /\ tasks[t].pc \in {"pick", "update"})

\* the write issued last for the key of n1 was applied (so it is when no
\* write failed at all)
LastWriteApplied == lastSeq[StoreKey("n1")] = writes

\* C18: in one instance, after any interleaving of edit(), clear() and
\* setComparisonType() whose writes succeed, once no such call is in flight
\* the in-memory target is the persisted entry of the node: both absent, or
\* the same ref and type (a legacy string read with the node's default type).
C18_MemoryMatchesStore ==
    NoMutationInFlight /\ LastWriteApplied =>
        _compareWith["n1"] =
            Loaded(Entry(workspaceState, StoreKey("n1")), showComparison["n1"])

\* two overlapping mutating calls, both written and returned
C18_Witness ==
    /\ NoMutationInFlight
    /\ LastWriteApplied
    /\ \E t, u \in TaskIds :
          /\ t # u
          /\ IsMut(t) /\ tasks[t].pc = "done" /\ tasks[t].seq = 1
          /\ IsMut(u) /\ tasks[u].pc = "done" /\ tasks[u].seq = 2
          /\ tasks[u].during # {}
          /\ tasks[t].compareWith # tasks[u].compareWith
          /\ _compareWith["n1"] = tasks[u].compareWith

\* ------------------------------------------------------------------- C19
\* getChildren() on n1 would return a cached, non-empty child set (lines
\* 64-66 and 136)
ReturnsCached ==
    /\ _compareWith["n1"].tag # "undefined"
    /\ _children["n1"].tag # "undefined"

\* the cached child set is one built from the pairs and the type of the
\* target the node has now
BuiltFromTarget ==
    \E c \in Counts, r \in MergeBases :
        _children["n1"] = Children("n1", ahead("n1"), behind("n1"), c, r)

\* edit() or setComparisonType() assigns a new target in this step
TargetChanges ==
    /\ _compareWith'["n1"] # _compareWith["n1"]
    /\ \E t \in TaskIds :
          /\ IssuesWrite(t)
          /\ tasks'[t].node = "n1"
          /\ tasks'[t].op \in {"edit", "setComparisonType"}

\* C19: a non-empty child set returned by getChildren() is built from the
\* node's current target: when edit() or setComparisonType() changes the
\* target, also while their write is pending or after it failed, getChildren()
\* does not go on returning the children cached for the previous target.
C19_CacheFollowsTarget ==
    [][ReturnsCached /\ BuiltFromTarget /\ TargetChanges =>
           (ReturnsCached => BuiltFromTarget)']_vars

\* ------------------------------------------------------------------- C20
\* C20: refresh() empties the children cache and makes the in-memory target
\* the node's persisted entry as it is now (a legacy string normalized, no
\* entry: unconfigured), whatever the target was before; it writes nothing
\* and fires no signal.
C20_RefreshReloads ==
    [][\A t \in TaskIds : refresh(t, "n1") =>
          /\ _children'["n1"] = Undefined
          /\ _compareWith'["n1"] =
                Loaded(Entry(workspaceState', StoreKey("n1")), showComparison'["n1"])
          /\ \A n \in Nodes \ {"n1"} :
                /\ _compareWith'[n] = _compareWith[n]
                /\ _children'[n] = _children[n]
          /\ UNCHANGED <<workspaceState, showComparison, writes, refreshes>>]_vars

\* n1 was built unconfigured; the other view of the branch stored a target,
\* and the refreshed n1 now has it
C20_Witness ==
    \E t, u \in TaskIds :
        /\ tasks[t].kind = "refresh"
        /\ tasks[t].node = "n1"
        /\ tasks[u].kind = "mut"
        /\ tasks[u].node = "n2"
        /\ tasks[u].pc = "done"
        /\ tasks[u].seq > 0
        /\ tasks[u].writeOk
        /\ tasks[u].old = Undefined
        /\ tasks[u].compareWith # Undefined
        /\ _compareWith["n1"] = tasks[u].compareWith
        /\ _children["n1"] = Undefined

====
